---- MODULE Spec2Model ----
(***************************************************************************)
(* A model of pydub's AudioBuffer (src/pydub/audio_buffer.py): a mutable   *)
(* matrix of normalised float samples (frames x channels) with in-place    *)
(* fade and overlay, built from an AudioSegment and converted back by      *)
(* segment().                                                              *)
(*                                                                         *)
(* Numbers.  A sample is a real number.  It is kept exactly, as a finite   *)
(* sum of terms  m * 2^(-k) * 10^(x / (GainDiv * ExpUnit))  with one term  *)
(* per exponent x and m odd: the integer samples divided by a power of two *)
(* give the terms with x = 0, a gain in dB moves x, and an addition adds   *)
(* the coefficients of equal exponents.  Two samples with the same terms   *)
(* are the same number.  Rounding of the float products is not modelled.   *)
(* A time in ms becomes a frame count ms * frame_rate / 1000; the model    *)
(* keeps its numerator and divides exactly, which is what the float        *)
(* product ms * (frame_rate / 1000.0) gives for the frame rates of the     *)
(* model (frame_rate / 1000.0 is a binary fraction for both).              *)
(***************************************************************************)
EXTENDS Integers, Sequences, FiniteSets, TLC

VARIABLES
    seg,           \* the AudioSegment the buffer was constructed from
    sample_width,  \* self.sample_width
    frame_rate,    \* self.frame_rate
    channels,      \* self.channels
    data,          \* self._data: a sequence of frames, each a sequence of samples
    last,          \* the last call on the buffer: its arguments and what it did
    nops,          \* number of calls made so far
    out            \* the AudioSegment segment() returned, if it was called

vars == <<seg, sample_width, frame_rate, channels, data, last, nops, out>>

---------------------------------------------------------------------------
(* Bounds of the model *)

MaxFrames == 3

MaxOps == 2

MaxRTFrames == 2

FrameRates == {500, 2000}

ChannelCounts == {1, 2}

---------------------------------------------------------------------------
(* Program constants *)

MsPerSecond == 1000

GainDiv == 20

Int16Scale == 32768

FadeSilence == -120

---------------------------------------------------------------------------
(* Arithmetic helpers *)

Max(a, b) == IF a >= b THEN a ELSE b

Min(a, b) == IF a <= b THEN a ELSE b

\* Python's int() of the quotient a / b of a real division (b > 0): truncation
\* toward zero.
TruncDiv(a, b) == IF a >= 0 THEN a \div b ELSE -((-a) \div b)

RECURSIVE Pow2(_)
Pow2(n) == IF n <= 0 THEN 1 ELSE 2 * Pow2(n - 1)

RECURSIVE Gcd(_, _)
Gcd(a, b) == IF b = 0 THEN a ELSE Gcd(b, a % b)

RECURSIVE LcmUpTo(_)
LcmUpTo(n) == IF n <= 1 THEN 1 ELSE (LcmUpTo(n - 1) * n) \div Gcd(LcmUpTo(n - 1), n)

\* The exponents of np.logspace over num <= MaxFrames points are multiples of
\* 1 / (GainDiv * ExpUnit) when the gains are whole dB.
ExpUnit == LcmUpTo(MaxFrames)

\* Python's round() of the real num / den (num >= 0, den > 0): to the nearest
\* integer, a tie to the even one.
PyRound(num, den) ==
    LET q == num \div den
        r == num % den
    IN  IF 2 * r < den THEN q
        ELSE IF 2 * r > den THEN q + 1
        ELSE IF q % 2 = 0 THEN q ELSE q + 1

\* Optional arguments: None, or a value.
None == {}

Some(v) == {v}

Val(o) == CHOOSE v \in o : TRUE

\* Python's "not x" for x None or an integer.
Falsy(o) == o = None \/ o = Some(0)

---------------------------------------------------------------------------
(* Samples *)

RECURSIVE NormTerm(_)
NormTerm(t) ==
    IF t.m % 2 = 0 /\ t.m # 0
    THEN NormTerm([t EXCEPT !.m = t.m \div 2, !.k = t.k - 1])
    ELSE t

Coef(s, x) ==
    IF \E t \in s : t.x = x THEN CHOOSE t \in s : t.x = x
    ELSE [x |-> x, m |-> 0, k |-> 0]

AddTerms(a, b) ==
    IF a.m = 0 THEN b
    ELSE IF b.m = 0 THEN a
    ELSE LET K == Max(a.k, b.k)
             M == a.m * Pow2(K - a.k) + b.m * Pow2(K - b.k)
         IN  NormTerm([x |-> a.x, m |-> M, k |-> K])

\* s + t
SampleAdd(s, t) ==
    LET xs == {u.x : u \in s \cup t}
    IN  {r \in {AddTerms(Coef(s, x), Coef(t, x)) : x \in xs} : r.m # 0}

\* s * 10^(e / (GainDiv * ExpUnit))
SampleScale(s, e) == {[u EXCEPT !.x = u.x + e] : u \in s}

\* v / float(1 << bits)
SampleOfInt(v, bits) ==
    IF v = 0 THEN {} ELSE {NormTerm([x |-> 0, m |-> v, k |-> bits])}

---------------------------------------------------------------------------
(* AudioSegment values, as far as the buffer uses them: the format fields  *)
(* and get_array_of_samples(), the interleaved integer samples.            *)

Segment(width, rate, ch, samples) ==
    [sample_width |-> width, frame_rate |-> rate, channels |-> ch, samples |-> samples]

\* Sample c of frame i of the test signal: odd values of both signs.
RampSample(i, c) == (2 * i - 1) * (IF c = 1 THEN 1 ELSE -1)

PatternSamples(n, ch, pat) ==
    [j \in 1..(n * ch) |->
        IF pat = "zero" THEN 0
        ELSE RampSample(((j - 1) \div ch) + 1, ((j - 1) % ch) + 1)]

---------------------------------------------------------------------------
(* __init__ *)

\* data.reshape(-1, channels)
Reshape(samples, ch) ==
    [i \in 1..(Len(samples) \div ch) |-> [c \in 1..ch |-> samples[(i - 1) * ch + c]]]

\* data / float(1 << ((data.dtype.itemsize * 8) - 1)); the array of a segment
\* has items of sample_width bytes.
NormalizeInts(samples, itemsize) ==
    [j \in 1..Len(samples) |-> SampleOfInt(samples[j], itemsize * 8 - 1)]

AudioBufferInit(s) ==
    [sample_width |-> s.sample_width,
     frame_rate   |-> s.frame_rate,
     channels     |-> s.channels,
     data         |-> Reshape(NormalizeInts(s.samples, s.sample_width), s.channels)]

---------------------------------------------------------------------------
(* frame_count, __len__ *)

\* frame_count(): len(self._data)
FrameCount(d) == Len(d)

\* frame_count(ms) = ms * (frame_rate / 1000.0), a real: its numerator over
\* MsPerSecond.
FrameCountMs(ms, rate) == ms * rate

\* __len__: round(1000 * (frame_count() / frame_rate))
BufferLen(d, rate) == PyRound(MsPerSecond * FrameCount(d), rate)

\* int(min(x, n)) for the real x = mf / MsPerSecond
IntOfMin(mf, n) == IF mf >= n * MsPerSecond THEN n ELSE TruncDiv(mf, MsPerSecond)

\* ClampFrame without the floor at 0.
ClampFrameNoFloor(ms, rate, n) == IntOfMin(FrameCountMs(ms, rate), n)

\* max(int(min(self.frame_count(ms), self.frame_count())), 0)
ClampFrame(ms, rate, n) == Max(IntOfMin(FrameCountMs(ms, rate), n), 0)

---------------------------------------------------------------------------
(* numpy: a[lo:hi] and the in-place operators on it *)

\* The position a slice bound b takes in an axis of n items.
SliceIndex(n, b) == IF b < 0 THEN Max(b + n, 0) ELSE Min(b, n)

SliceLen(n, lo, hi) == Max(SliceIndex(n, hi) - SliceIndex(n, lo), 0)

\* An operand of shape (sl, sc) broadcasts to the target's (tl, tc).
Broadcasts(tl, tc, sl, sc) == (sl = tl \/ sl = 1) /\ (sc = tc \/ sc = 1)

\* SliceMul with the slice left open at its end: d[lo:] *= ...
SliceMulOpenEnd(d, ch, lo, hi, profile) ==
    LET n  == Len(d)
        l0 == SliceIndex(n, lo)
        pl == Len(profile)
    IN  [err |-> "",
         data |-> [i \in 1..n |->
             IF l0 < i
             THEN [c \in 1..ch |-> SampleScale(d[i][c], profile[Min(i - l0, pl)])]
             ELSE d[i]]]

\* d[lo:hi] *= profile.repeat(ch).reshape(-1, ch), profile the exponents of the
\* gains of the frames.
SliceMul(d, ch, lo, hi, profile) ==
    LET n  == Len(d)
        l0 == SliceIndex(n, lo)
        tl == SliceLen(n, lo, hi)
        pl == Len(profile)
    IN  IF ~Broadcasts(tl, ch, pl, ch)
        THEN [err |-> "ValueError", data |-> d]
        ELSE [err |-> "",
              data |-> [i \in 1..n |->
                  IF l0 < i /\ i <= l0 + tl
                  THEN [c \in 1..ch |->
                          SampleScale(d[i][c], profile[IF pl = 1 THEN 1 ELSE i - l0])]
                  ELSE d[i]]]

\* SliceAdd that returns the sum of the slices instead of adding in place.
SliceAddCopy(d, ch, lo, hi, src, sch, slo, shi) ==
    LET n  == Len(d)
        l0 == SliceIndex(n, lo)
        tl == SliceLen(n, lo, hi)
        s0 == SliceIndex(Len(src), slo)
        sl == SliceLen(Len(src), slo, shi)
    IN  IF ~Broadcasts(tl, ch, sl, sch)
        THEN [err |-> "ValueError", data |-> d]
        ELSE [err |-> "",
              data |-> [i \in 1..tl |->
                  [c \in 1..ch |->
                      SampleAdd(d[l0 + i][c],
                                src[s0 + (IF sl = 1 THEN 1 ELSE i)][IF sch = 1 THEN 1 ELSE c])]]]

\* SliceAdd with an assignment for the addition: d[lo:hi] = src[slo:shi]
SliceAssign(d, ch, lo, hi, src, sch, slo, shi) ==
    LET n  == Len(d)
        l0 == SliceIndex(n, lo)
        tl == SliceLen(n, lo, hi)
        s0 == SliceIndex(Len(src), slo)
        sl == SliceLen(Len(src), slo, shi)
    IN  IF ~Broadcasts(tl, ch, sl, sch)
        THEN [err |-> "ValueError", data |-> d]
        ELSE [err |-> "",
              data |-> [i \in 1..n |->
                  IF l0 < i /\ i <= l0 + tl
                  THEN [c \in 1..ch |->
                          src[s0 + (IF sl = 1 THEN 1 ELSE i - l0)][IF sch = 1 THEN 1 ELSE c]]
                  ELSE d[i]]]

\* d[lo:hi] += src[slo:shi], src with sch channels.
SliceAdd(d, ch, lo, hi, src, sch, slo, shi) ==
    LET n  == Len(d)
        l0 == SliceIndex(n, lo)
        tl == SliceLen(n, lo, hi)
        s0 == SliceIndex(Len(src), slo)
        sl == SliceLen(Len(src), slo, shi)
    IN  IF ~Broadcasts(tl, ch, sl, sch)
        THEN [err |-> "ValueError", data |-> d]
        ELSE [err |-> "",
              data |-> [i \in 1..n |->
                  IF l0 < i /\ i <= l0 + tl
                  THEN [c \in 1..ch |->
                          SampleAdd(d[i][c],
                                    src[s0 + (IF sl = 1 THEN 1 ELSE i - l0)]
                                       [IF sch = 1 THEN 1 ELSE c])]
                  ELSE d[i]]]

---------------------------------------------------------------------------
(* fade, fade_out, fade_in *)

\* np.logspace(from_gain/20, to_gain/20, num): the exponents of its num gains,
\* in units of 1 / (GainDiv * ExpUnit); evenly spaced, both ends included.
Logspace(from_gain, to_gain, num) ==
    [i \in 1..num |->
        IF num = 1 THEN from_gain * ExpUnit
        ELSE from_gain * ExpUnit + ((i - 1) * (to_gain - from_gain) * ExpUnit) \div (num - 1)]

\* "if not start: start = end - duration"; None stands for the TypeError of an
\* operand that is None.
ResolveStart(start, end, duration) ==
    IF Falsy(start)
    THEN IF end = None \/ duration = None THEN None ELSE Some(Val(end) - Val(duration))
    ELSE start

\* "if not end: end = start + duration", start already resolved.
ResolveEnd(start, end, duration) ==
    IF Falsy(end)
    THEN IF duration = None THEN None ELSE Some(Val(start) + Val(duration))
    ELSE end

\* The frame range of the ramp and the multiplication, start and end in ms.
FadeApply(d, ch, rate, to_gain, from_gain, startMs, endMs) ==
    LET start    == ClampFrame(startMs, rate, FrameCount(d))
        end      == ClampFrame(endMs, rate, FrameCount(d))
        duration == end - start
        r        == SliceMul(d, ch, start, end, Logspace(from_gain, to_gain, duration))
    IN  IF duration > 0
        THEN [err |-> r.err, data |-> r.data, start |-> start, end |-> end,
              ramp |-> IF r.err = "" THEN duration ELSE 0]
        ELSE [err |-> "", data |-> d, start |-> start, end |-> end, ramp |-> 0]

\* fade(to_gain, from_gain, start, end, duration) on the frames d.
FadeCall(d, ch, rate, to_gain, from_gain, start, end, duration) ==
    LET s1 == ResolveStart(start, end, duration)
        e1 == ResolveEnd(s1, end, duration)
        failed == [err |-> "TypeError", data |-> d, start |-> 0, end |-> 0, ramp |-> 0]
    IN  IF s1 = None THEN failed
        ELSE IF e1 = None THEN failed
        ELSE FadeApply(d, ch, rate, to_gain, from_gain, Val(s1), Val(e1))

\* fade_out ending at len(self), without the extra millisecond.
FadeOutEndNoMargin(d, rate) == BufferLen(d, rate)

\* fade_out: end=len(self)+1
FadeOutEnd(d, rate) == BufferLen(d, rate) + 1

\* fade_out(duration)
FadeOutCall(d, ch, rate, duration) ==
    FadeCall(d, ch, rate, FadeSilence, 0, None, Some(FadeOutEnd(d, rate)), Some(duration))

\* fade_in(duration)
FadeInCall(d, ch, rate, duration) ==
    FadeCall(d, ch, rate, 0, FadeSilence, Some(0), None, Some(duration))

---------------------------------------------------------------------------
(* overlay *)

\* 10 ** (gain_during_overlay / 20), as an exponent
GainExp(gain) == gain * ExpUnit

\* overlay without the truncation of the range at the end of the target.
OverlayCallNoTrunc(d, ch, rate, src, sch, alias, position, gain) ==
    LET start  == TruncDiv(FrameCountMs(position, rate), MsPerSecond)
        m      == IF alias THEN FrameCount(d) ELSE FrameCount(src)
        end    == start + m
        scaled == IF Falsy(gain) THEN d
                  ELSE SliceMul(d, ch, start, end, <<GainExp(Val(gain))>>).data
        r      == SliceAdd(scaled, ch, start, end,
                           IF alias THEN scaled ELSE src, sch, 0, end - start)
    IN  IF end > start
        THEN [err |-> r.err, data |-> r.data, start |-> start, end |-> end,
              read |-> SliceLen(m, 0, end - start)]
        ELSE [err |-> "", data |-> d, start |-> start, end |-> end, read |-> 0]

\* overlay(seg, position, gain_during_overlay), seg a buffer: src are its frames
\* (those of the target itself when alias), sch its channel count.
OverlayCall(d, ch, rate, src, sch, alias, position, gain) ==
    LET start  == TruncDiv(FrameCountMs(position, rate), MsPerSecond)
        m      == IF alias THEN FrameCount(d) ELSE FrameCount(src)
        end    == Min(start + m, FrameCount(d))
        scaled == IF Falsy(gain) THEN d
                  ELSE SliceMul(d, ch, start, end, <<GainExp(Val(gain))>>).data
        r      == SliceAdd(scaled, ch, start, end,
                           IF alias THEN scaled ELSE src, sch, 0, end - start)
    IN  IF end > start
        THEN [err |-> r.err, data |-> r.data, start |-> start, end |-> end,
              read |-> SliceLen(m, 0, end - start)]
        ELSE [err |-> "", data |-> d, start |-> start, end |-> end, read |-> 0]

---------------------------------------------------------------------------
(* segment() *)

\* int(m * s / 2^k), toward zero; the common powers of two are cancelled first.
RECURSIVE MulShift(_, _, _)
MulShift(m, s, k) ==
    IF k > 0 /\ s % 2 = 0 THEN MulShift(m, s \div 2, k - 1)
    ELSE IF k <= 0 THEN m * s * Pow2(-k)
    ELSE TruncDiv(m * s, Pow2(k))

\* (x * 32768).astype(np.int16) for a sample that is a binary fraction within
\* [-1, 1): the integer part of the product.
ToInt16(s) ==
    IF s = {} THEN 0
    ELSE LET t == Coef(s, 0) IN MulShift(t.m, Int16Scale, t.k)

\* .reshape((-1,)): the frames one after the other
Flatten(d, ch) == [j \in 1..(Len(d) * ch) |-> d[((j - 1) \div ch) + 1][((j - 1) % ch) + 1]]

SegmentCall(d, width, rate, ch) ==
    Segment(width, rate, ch, [j \in 1..(Len(d) * ch) |-> ToInt16(Flatten(d, ch)[j])])

---------------------------------------------------------------------------
(* The state machine: a buffer constructed from a segment, then calls *)

\* <<from_gain, to_gain>> in dB
FadeGains == {<<-20, 0>>}

\* <<start, end, duration>> in ms
FadeArgs ==
    { <<None, None, None>>, <<None, Some(7), Some(2)>>, <<None, Some(1), Some(2)>>,
      <<Some(3), None, Some(2)>>, <<Some(3), None, None>>, <<Some(0), None, Some(2)>>,
      <<Some(0), Some(7), Some(2)>>, <<Some(-3), Some(1), None>>,
      <<Some(3), Some(7), None>>, <<Some(3), Some(1), None>>,
      <<Some(3), Some(0), Some(2)>>, <<Some(3), Some(0), None>>,
      <<Some(-3), Some(7), Some(2)>> }

FadeOutDurations == {0, 1, 2, 5, 9}

FadeInDurations == {0, 2, 5}

OverlayPositions == {-7, -1, 0, 3}

OverlayGains == {None, Some(0), Some(-20)}

NoCall ==
    [op |-> "none", err |-> "", start |-> 0, end |-> 0, ramp |-> 0,
     read |-> 0, args |-> <<None, None, None>>, pre |-> <<>>, src |-> <<>>, srcCh |-> 0,
     alias |-> FALSE]

NoSegment == Segment(0, 0, 0, <<>>)

\* The buffers overlay is given: the target itself, a buffer of up to MaxFrames
\* frames of the test signal, two frames of silence, or one frame of the test
\* signal with either channel count.
OverlaySources ==
    {[alias |-> TRUE, channels |-> channels, data |-> <<>>]}
    \cup {[alias |-> FALSE, channels |-> p[2],
           data |-> AudioBufferInit(
                        Segment(2, frame_rate, p[2], PatternSamples(p[1], p[2], p[3]))).data] :
            p \in ({<<m, channels, "ramp">> : m \in 0..MaxFrames}
                   \cup {<<2, channels, "zero">>}
                   \cup {<<1, c, "ramp">> : c \in ChannelCounts})}

InitFrom(s) ==
    LET b == AudioBufferInit(s)
    IN  /\ seg = s
        /\ sample_width = b.sample_width
        /\ frame_rate = b.frame_rate
        /\ channels = b.channels
        /\ data = b.data
        /\ last = NoCall
        /\ nops = 0
        /\ out = NoSegment

\* <<channels, frame_rate>> of the buffers that are called
Formats == {<<1, 500>>, <<2, 2000>>}

Init ==
    \E n \in 0..MaxFrames, f \in Formats :
        InitFrom(Segment(2, f[2], f[1], PatternSamples(n, f[1], "ramp")))

Called(op, r, args, ramp, read, src, srcCh, alias) ==
    /\ data' = r.data
    /\ last' = [op |-> op, err |-> r.err, start |-> r.start, end |-> r.end,
                ramp |-> ramp, read |-> read, args |-> args, pre |-> data, src |-> src,
                srcCh |-> srcCh, alias |-> alias]
    /\ nops' = nops + 1
    /\ UNCHANGED <<seg, sample_width, frame_rate, channels, out>>

Fade ==
    /\ nops < MaxOps
    /\ \E g \in FadeGains, a \in FadeArgs :
          LET r == FadeCall(data, channels, frame_rate, g[2], g[1], a[1], a[2], a[3])
          IN  Called("fade", r, a, r.ramp, 0, <<>>, 0, FALSE)

FadeOut ==
    /\ nops < MaxOps
    /\ \E du \in FadeOutDurations :
          LET r == FadeOutCall(data, channels, frame_rate, du)
          IN  Called("fade_out", r, <<None, None, Some(du)>>, r.ramp, 0, <<>>, 0, FALSE)

FadeIn ==
    /\ nops < MaxOps
    /\ \E du \in FadeInDurations :
          LET r == FadeInCall(data, channels, frame_rate, du)
          IN  Called("fade_in", r, <<None, None, Some(du)>>, r.ramp, 0, <<>>, 0, FALSE)

Overlay ==
    /\ nops < MaxOps
    /\ \E b \in OverlaySources, pos \in OverlayPositions, g \in OverlayGains :
          LET src == IF b.alias THEN data ELSE b.data
              r == OverlayCall(data, channels, frame_rate, b.data, b.channels,
                               b.alias, pos, g)
          IN  Called("overlay", r, <<Some(pos), g, None>>, 0, r.read, src, b.channels, b.alias)

Next == Fade \/ FadeOut \/ FadeIn \/ Overlay

Spec == Init /\ [][Next]_vars

---------------------------------------------------------------------------
(* The round trip: a buffer constructed from a segment of any sample width, *)
(* then segment() with no call in between                                   *)

SampleWidths == {1, 2, 4}

\* Samples of a segment of the given width: the extremes and a small value.
WidthSamples(width) ==
    IF width = 1 THEN {-128, 1, 127}
    ELSE IF width = 2 THEN {-32768, 1, 32767}
    ELSE {-2147483647, 65537, 2147483647}

InitRT ==
    \E w \in SampleWidths, ch \in ChannelCounts, rate \in FrameRates, n \in 0..MaxRTFrames :
        \E samples \in [1..(n * ch) -> WidthSamples(w)] :
            InitFrom(Segment(w, rate, ch, samples))

ToSegment ==
    /\ out = NoSegment
    /\ out' = SegmentCall(data, sample_width, frame_rate, channels)
    /\ UNCHANGED <<seg, sample_width, frame_rate, channels, data, last, nops>>

NextRT == ToSegment

SpecRT == InitRT /\ [][NextRT]_vars

---------------------------------------------------------------------------
(* Properties *)

\* The frame count of the buffer when the last call was made.
CallFrames == FrameCount(last.pre)

\* The last overlay call: its position (ms), its gain_during_overlay, the frame
\* count of its source, and int(position * frame_rate / 1000).
OvPosition == Val(last.args[1])

OvGain == last.args[2]

OvSourceFrames == FrameCount(last.src)

OvStart == TruncDiv(OvPosition * frame_rate, MsPerSecond)

\* 2 * s
Twice(s) == {[u EXCEPT !.k = u.k - 1] : u \in s}

\* All samples of the frames are 0.0.
Silent(frames) == \A i \in 1..Len(frames) : \A c \in 1..Len(frames[i]) : frames[i][c] = {}

\* C1: whatever calls were made, sample_width, frame_rate and channels are those
\* of construction, every frame has `channels` samples, and the frame count is
\* the one at construction.
C1_FormatAndShapeKept ==
    /\ sample_width = seg.sample_width
    /\ frame_rate = seg.frame_rate
    /\ channels = seg.channels
    /\ FrameCount(data) * seg.channels = Len(seg.samples)
    /\ \A i \in 1..Len(data) : Len(data[i]) = channels

C1_Witness ==
    /\ nops >= 2
    /\ last.op = "overlay"
    /\ last.err = ""
    /\ last.pre # AudioBufferInit(seg).data
    /\ data # last.pre

\* C2: fade_in(duration), duration > 0, on a buffer of N >= 1 frames returns,
\* having applied a ramp from -120 dB to 0 dB to the frames from 0 to
\* min(int(duration * frame_rate / 1000), N) and left the later frames alone.
C2_FadeInRamp ==
    (last.op = "fade_in" /\ CallFrames >= 1 /\ Val(last.args[3]) > 0) =>
        LET end == Min(TruncDiv(Val(last.args[3]) * frame_rate, MsPerSecond), CallFrames)
        IN  /\ last.err = ""
            /\ last.start = 0
            /\ last.end = end
            /\ \A i \in 1..CallFrames :
                  data[i] = IF i <= end
                            THEN [c \in 1..channels |->
                                    SampleScale(last.pre[i][c], Logspace(FadeSilence, 0, end)[i])]
                            ELSE last.pre[i]

FadeDerivable(a) ==
    /\ (a[1] # None /\ a[1] # Some(0)) \/ (a[2] # None /\ a[3] # None)
    /\ (a[2] # None /\ a[2] # Some(0)) \/ a[3] # None

\* C4: a fade call whose start and end are derivable raises nothing, uses frame
\* indices within [0, frame_count()], and applies a ramp of clamped end minus
\* clamped start frames: frame_count() - start frames when the end given lies
\* beyond the buffer.
C4_FadeClamped ==
    (last.op = "fade" /\ FadeDerivable(last.args)) =>
        /\ last.err = ""
        /\ 0 <= last.start /\ last.start <= CallFrames
        /\ 0 <= last.end /\ last.end <= CallFrames
        /\ last.ramp = Max(last.end - last.start, 0)
        /\ (/\ last.args[2] # None
            /\ last.args[2] # Some(0)
            /\ Val(last.args[2]) * frame_rate >= CallFrames * MsPerSecond)
           => (last.end = CallFrames /\ last.ramp = CallFrames - last.start)

C4_Witness ==
    /\ last.op = "fade"
    /\ last.args = <<Some(3), Some(7), None>>
    /\ last.err = ""
    /\ last.start > 0
    /\ last.ramp = CallFrames - last.start
    /\ last.ramp > 0
    /\ data # last.pre

\* C5: a fade, fade_out or fade_in call that returns leaves every frame before
\* its clamped start or at or after its clamped end as it was, and the whole
\* buffer when start >= end.
C5_FadeFrame ==
    (last.op \in {"fade", "fade_out", "fade_in"} /\ last.err = "") =>
        /\ \A i \in 1..CallFrames :
              (i <= last.start \/ i > last.end) => data[i] = last.pre[i]
        /\ last.start >= last.end => data = last.pre

C5_Witness ==
    /\ last.op = "fade"
    /\ last.err = ""
    /\ 0 < last.start
    /\ last.start < last.end
    /\ last.end < CallFrames
    /\ data # last.pre

C7_OverlayDucking ==
    (/\ last.op = "overlay"
     /\ ~Falsy(OvGain)
     /\ OvPosition >= 0
     /\ last.srcCh = channels
     /\ last.err = "") =>
        \A i \in 1..CallFrames :
            (OvStart < i /\ i <= Min(OvStart + OvSourceFrames, CallFrames)) =>
                data[i] = [c \in 1..channels |->
                             SampleAdd(SampleScale(last.pre[i][c], GainExp(Val(OvGain))),
                                       last.src[i - OvStart][c])]

\* C8: with gain_during_overlay None or 0, overlaying silence at a position >= 0
\* changes nothing, and overlaying at position 0 a buffer whose contents equal
\* the target's doubles every sample of the overlapped frames.
C8_OverlayAdditive ==
    (last.op = "overlay" /\ Falsy(OvGain) /\ OvPosition >= 0 /\ last.srcCh = channels) =>
        /\ Silent(last.src) => (last.err = "" /\ data = last.pre)
        /\ (OvPosition = 0 /\ last.src = last.pre) =>
              /\ last.err = ""
              /\ \A i \in 1..CallFrames :
                    data[i] = [c \in 1..channels |-> Twice(last.pre[i][c])]

C8_Witness ==
    /\ last.op = "overlay"
    /\ ~last.alias
    /\ OvGain = Some(0)
    /\ OvPosition = 0
    /\ last.src = last.pre
    /\ CallFrames >= 2
    /\ data # last.pre

\* C9: a segment of any sample width turned into a buffer and back by segment()
\* keeps its sample_width, frame_rate and channels, and its samples in their
\* order up to the quantisation error of the conversion.
C9_RoundTrip ==
    out # NoSegment =>
        /\ out.sample_width = seg.sample_width
        /\ out.frame_rate = seg.frame_rate
        /\ out.channels = seg.channels
        /\ Len(out.samples) = Len(seg.samples)
        /\ \A j \in 1..Len(seg.samples) :
              /\ out.samples[j] - seg.samples[j] <= 1
              /\ seg.samples[j] - out.samples[j] <= 1

\* C10: overlay at any position, negative ones included, of a source of M >= 1
\* frames raises nothing and adds source frame j into target frame start + j
\* only, and only when 0 <= start + j < N.
C10_OverlayNegative ==
    (/\ last.op = "overlay"
     /\ ~last.alias
     /\ Falsy(OvGain)
     /\ last.srcCh = channels
     /\ OvSourceFrames >= 1) =>
        /\ last.err = ""
        /\ \A i \in 1..CallFrames :
              data[i] = IF OvStart < i /\ i <= OvStart + OvSourceFrames
                        THEN [c \in 1..channels |->
                                SampleAdd(last.pre[i][c], last.src[i - OvStart][c])]
                        ELSE last.pre[i]

====
